---- MODULE Spec2Model ----
(***************************************************************************)
(* Battle for Canggu: the game-state engine of the two deployed variants   *)
(* of server.js.                                                           *)
(*   program = "server"   : src/server.js  (game window, penalties, decks,  *)
(*                          claim / lock / stealAttempt)                    *)
(*   program = "part_000" : src/unnamed/part_000 (preconfigured teams,      *)
(*                          one /api/claim endpoint with an action field)   *)
(* Spec runs the bar engine of both programs, SpecConc the claim handler   *)
(* of server.js split at its database read, SpecDeck the challenge engine  *)
(* of server.js.                                                           *)
(* Each Express handler is one action; its response is the value of the    *)
(* handler's ...Result operator in the state the request arrives in.       *)
(* Payload fields that no handler ever reads back (bar name, lat, lng,     *)
(* photo paths, team name, team color) are not part of the state.          *)
(***************************************************************************)
EXTENDS Integers, Sequences, FiniteSets, TLC

VARIABLES
  program,        \* "server" or "part_000": which program is running
  now,            \* Date.now(), in milliseconds since the start
  game,           \* db.game: the window bounds start / end, 0 when not set,
                  \* accessCode, "" when not set, and masterDeck, <<>> when not
                  \* uploaded (part_000: the active game code)
  teams,          \* db.teams: team code -> [score, penaltyUntil, deck, drawn,
                  \* deckSeed, activeChallenge] (part_000: [score])
  bars,           \* db.bars: place id -> [state, claimedBy, lockedBy, attemptsFailed]
                  \* (part_000: [owner, locked]); a place without record is not
                  \* in the domain
  acceptedFails,  \* history: per place, the failed stealAttempts answered ok
                  \* since the bar was created or last stolen
  running         \* the frames of the calls in progress: claim handlers between
                  \* their read and write, a shuffle between two iterations

vars == <<program, now, game, teams, bars, acceptedFails, running>>

(* ---------------------------- bounds ---------------------------------- *)
\* the clock advances in steps of TickMs milliseconds, at most MaxTicks times
TickMs == 150000
MaxTicks == 2
\* a handler that would raise a score above MaxScore is not taken
MaxScore == 2
\* a penalty that would leave more than MaxPenalties penalties' worth of
\* lockout pending is not taken
MaxPenalties == 2
\* the challenge-deck runs: the clock stops at MaxDeckMinutes minutes
MaxDeckMinutes == 12

(* ------------------------ program constants --------------------------- *)
MinuteMs == 60000
PenaltyMinutes == 5
MinAttemptMinutes == 12

\* request values: team codes, place ids; "" is a missing / empty field
\* RosterCodes are the codes the administrator registers; "T3" is a code that is
\* never registered
RosterCodes == {"T1", "T2"}
NoCode == ""
CodeInputs == RosterCodes \cup {"T3", NoCode}
Places == {"B1", "B2"}
PlaceInputs == Places \cup {""}
NameInputs == {"Bar", ""}
\* the photo fields a multipart request can carry
PhotoInputs == {{}, {"teamPhoto", "drinksPhoto"}}
\* start/end pairs an administrator can post; 0 is "not set" (falsy)
WindowInputs == {<<0, 0>>, <<TickMs, TickMs>>}

\* a field the request body does not carry
Undefined == "undefined"
\* the bounds and the access codes an administrator posts in the lobby runs
LobbyBounds == {0, TickMs, 2 * TickMs}
LobbyCodes == {Undefined, "", "Canggu"}
\* the accessCode and displayName fields of a join request
JoinCodes == {"Canggu", "Seminyak", ""}
JoinNames == {"Made", ""}

\* part_000: TEAMS_CONFIG codes
TEAMS_CONFIG == <<"NAP123", "PUMP456", "ROCK789", "RAJMA777">>
ConfigCodes == {TEAMS_CONFIG[i] : i \in 1..Len(TEAMS_CONFIG)}
PCodeInputs == ConfigCodes \cup {NoCode, "ZZZ"}
ActionInputs == {"claim", "lock", "none"}

\* the rows of an uploaded sheet (columns type, text); NoFile is a request
\* without file
NoFile == <<[type |-> "nofile", text |-> ""]>>
FileInputs ==
  { NoFile,
    <<[type |-> "", text |-> "X"]>>,
    <<[type |-> "challenge", text |-> "A"], [type |-> "curse", text |-> ""],
      [type |-> "curse", text |-> "C"], [type |-> "", text |-> "D"]>> }

\* the UTF-16 code units of the team codes (String.prototype.charCodeAt)
CodeUnits ==
  [c \in CodeInputs |->
     IF c = "T1" THEN <<84, 49>> ELSE IF c = "T2" THEN <<84, 50>>
     ELSE IF c = "T3" THEN <<84, 51>> ELSE <<>>]

Empty == [x \in {} |-> x]
\* what `db.bars[placeId]` reads for a place that has no record
NoBar == [state |-> "absent"]

(* --------------------------- server.js -------------------------------- *)
\* `running` holds the frames of the handlers that have read the database and
\* not yet written their result.  A handler body is synchronous (no await, no
\* callback between its reads and its writes): once dispatched it runs to its
\* response before the event loop dispatches another request.
\* a handler that yields between its reads and its writes
CanDispatch_Yielding == TRUE

CanDispatch == running = {}

\* the initial db.json content
loadDB ==
  [game |-> [accessCode |-> "", start |-> 0, end |-> 0, masterDeck |-> <<>>],
   teams |-> Empty, bars |-> Empty]

\* a window check that treats a missing bound as a bound
withinGameTime_NeedsBoth ==
  IF game.start = 0 /\ game.end = 0 THEN TRUE
  ELSE now >= game.start /\ now <= game.end

\* a window check that is never closed
withinGameTime_AlwaysOpen == TRUE

withinGameTime ==
  IF game.start = 0 \/ game.end = 0 THEN TRUE
  ELSE now >= game.start /\ now <= game.end

\* ensureTeam throws exactly when this is false
ensureTeam(teamCode) == teamCode \in DOMAIN teams

isPenalized(teamCode) ==
  teams[teamCode].penaltyUntil # 0 /\ now < teams[teamCode].penaltyUntil

Max(a, b) == IF a >= b THEN a ELSE b

\* a penalty that always restarts from now
addPenalty_Restart(t, minutes) ==
  [t EXCEPT !.penaltyUntil = now + minutes * MinuteMs]

addPenalty(t, minutes) ==
  [t EXCEPT !.penaltyUntil = Max(now, t.penaltyUntil) + minutes * MinuteMs]

\* `activeChallenge: null`
NoChallenge == [status |-> "none"]

\* deckSeed is kept as its sequence of code units, <<>> for ""
newTeam ==
  [score |-> 0, penaltyUntil |-> 0, deck |-> <<>>, drawn |-> <<>>,
   deckSeed |-> <<>>, activeChallenge |-> NoChallenge]

Tick ==
  /\ now < MaxTicks * TickMs
  /\ now' = now + TickMs
  /\ program = "server"
  /\ UNCHANGED <<program, game, teams, bars, acceptedFails, running>>

\* `if (accessCode !== undefined) db.game.accessCode = String(accessCode || "")`,
\* `db.game.start = start ? Number(start) : null` (null is 0 here)
initGame(start, end, accessCode) ==
  /\ program = "server"
  /\ CanDispatch
  /\ game' = [game EXCEPT !.start = start, !.end = end,
                          !.accessCode = IF accessCode = Undefined THEN @ ELSE accessCode]
  /\ UNCHANGED <<program, now, teams, bars, acceptedFails, running>>

createTeamResult(teamCode, name) ==
  IF teamCode = NoCode \/ name = "" THEN "MissingFields" ELSE "ok"

createTeam(teamCode, name) ==
  /\ program = "server"
  /\ CanDispatch
  /\ IF createTeamResult(teamCode, name) = "ok" /\ teamCode \notin DOMAIN teams
       THEN teams' = (teamCode :> newTeam) @@ teams
       ELSE teams' = teams
  /\ UNCHANGED <<program, now, game, bars, acceptedFails, running>>

\* a reset that keeps the teams' decks
resetTeam_KeepDeck(t) ==
  [t EXCEPT !.score = 0, !.penaltyUntil = 0, !.drawn = <<>>,
            !.activeChallenge = NoChallenge]

resetTeam(t) ==
  [t EXCEPT !.score = 0, !.penaltyUntil = 0, !.drawn = <<>>,
            !.activeChallenge = NoChallenge, !.deckSeed = <<>>, !.deck = <<>>]

resetState ==
  /\ program = "server"
  /\ CanDispatch
  /\ bars' = Empty
  /\ teams' = [c \in DOMAIN teams |-> resetTeam(teams[c])]
  /\ acceptedFails' = [p \in Places |-> 0]
  /\ UNCHANGED <<program, now, game, running>>

\* a join that insists on the access code even when the game has none
joinResult_AlwaysChecksCode(accessCode, teamCode, displayName) ==
  IF teamCode = NoCode \/ displayName = "" THEN "MissingFields"
  ELSE IF accessCode # game.accessCode THEN "InvalidGameCode"
  ELSE IF teamCode \notin DOMAIN teams THEN "InvalidTeamCode"
  ELSE "ok"

joinResult(accessCode, teamCode, displayName) ==
  IF teamCode = NoCode \/ displayName = "" THEN "MissingFields"
  ELSE IF game.accessCode # "" /\ accessCode # game.accessCode THEN "InvalidGameCode"
  ELSE IF teamCode \notin DOMAIN teams THEN "InvalidTeamCode"
  ELSE "ok"

\* the handler only reads
join(accessCode, teamCode, displayName) ==
  /\ program = "server"
  /\ CanDispatch
  /\ joinResult(accessCode, teamCode, displayName) \in
       {"MissingFields", "InvalidGameCode", "InvalidTeamCode", "ok"}
  /\ UNCHANGED vars

(* ----------------- server.js: claim / lock / stealAttempt ------------- *)

\* the checks without the locked check
claimResult_NoLockedCheck(teamCode, placeId, name) ==
  IF ~withinGameTime THEN "GameWindowClosed"
  ELSE IF teamCode = NoCode \/ placeId = "" \/ name = "" THEN "MissingFields"
  ELSE IF ~ensureTeam(teamCode) THEN "InvalidTeam"
  ELSE IF isPenalized(teamCode) THEN "PenaltyActive"
  ELSE "ok"

claimResult(teamCode, placeId, name) ==
  IF ~withinGameTime THEN "GameWindowClosed"
  ELSE IF teamCode = NoCode \/ placeId = "" \/ name = "" THEN "MissingFields"
  ELSE IF ~ensureTeam(teamCode) THEN "InvalidTeam"
  ELSE IF isPenalized(teamCode) THEN "PenaltyActive"
  ELSE IF placeId \in DOMAIN bars /\ bars[placeId].state = "locked" THEN "BarLocked"
  ELSE "ok"

\* the record of a bar claimed for the first time; the photos only set the
\* stored proof paths
claimedBar(teamCode, photos) ==
  [state |-> "claimed", claimedBy |-> teamCode, lockedBy |-> NoCode,
   attemptsFailed |-> 0]

\* an existing-bar branch that forgets to write the new owner
claimOver_KeepOwner(bar, teamCode, photos) ==
  [bar EXCEPT !.state = "claimed", !.lockedBy = NoCode]

\* the existing-bar branch
claimOver(bar, teamCode, photos) ==
  [bar EXCEPT !.state = "claimed", !.claimedBy = teamCode, !.lockedBy = NoCode]

\* a scoring step that takes the point instead of giving it
addPoint_TakesPoint(t) == [t EXCEPT !.score = t.score - 1]

addPoint(t) == [t EXCEPT !.score = t.score + 1]

\* the bar the handler writes, given the bar it read at `let bar = db.bars[placeId]`
claimWrite(seen, teamCode, photos) ==
  IF seen = NoBar THEN claimedBar(teamCode, photos)
  ELSE claimOver(seen, teamCode, photos)

readBar(placeId) == IF placeId \in DOMAIN bars THEN bars[placeId] ELSE NoBar

claim(teamCode, placeId, name, photos) ==
  /\ program = "server"
  /\ CanDispatch
  /\ IF claimResult(teamCode, placeId, name) = "ok"
       THEN /\ teams[teamCode].score < MaxScore
            /\ bars' = (placeId :> claimWrite(readBar(placeId), teamCode, photos)) @@ bars
            /\ teams' = [teams EXCEPT ![teamCode] = addPoint(@)]
            /\ acceptedFails' = IF placeId \in DOMAIN bars THEN acceptedFails
                                ELSE [acceptedFails EXCEPT ![placeId] = 0]
       ELSE UNCHANGED <<bars, teams, acceptedFails>>
  /\ UNCHANGED <<program, now, game, running>>

\* a lock handler that lets any team lock a claimed bar
lockResult_NoOwnerCheck(teamCode, placeId) ==
  IF ~withinGameTime THEN "GameWindowClosed"
  ELSE IF placeId \notin DOMAIN bars THEN "UnknownBar"
  ELSE IF bars[placeId].state # "claimed" THEN "BarNotOwnedByCaller"
  ELSE "ok"

lockResult(teamCode, placeId) ==
  IF ~withinGameTime THEN "GameWindowClosed"
  ELSE IF placeId \notin DOMAIN bars THEN "UnknownBar"
  ELSE IF bars[placeId].state # "claimed" \/ bars[placeId].claimedBy # teamCode
    THEN "BarNotOwnedByCaller"
  ELSE "ok"

\* a lock that does not record who locked
lockedBar_NoLockedBy(bar, teamCode) == [bar EXCEPT !.state = "locked"]

lockedBar(bar, teamCode) == [bar EXCEPT !.state = "locked", !.lockedBy = teamCode]

lock(teamCode, placeId) ==
  /\ program = "server"
  /\ CanDispatch
  /\ IF lockResult(teamCode, placeId) = "ok"
       THEN bars' = [bars EXCEPT ![placeId] = lockedBar(@, teamCode)]
       ELSE bars' = bars
  /\ UNCHANGED <<program, now, game, teams, acceptedFails, running>>

\* a steal handler without the own-bar check
stealPrecheck_NoOwnCheck(teamCode, placeId) ==
  IF ~withinGameTime THEN "GameWindowClosed"
  ELSE IF placeId \notin DOMAIN bars THEN "UnknownBar"
  ELSE IF bars[placeId].state # "claimed" THEN "BarLocked"
  ELSE "ok"

\* the checks before `const stealSuccess = ...`
stealPrecheck(teamCode, placeId) ==
  IF ~withinGameTime THEN "GameWindowClosed"
  ELSE IF placeId \notin DOMAIN bars THEN "UnknownBar"
  ELSE IF bars[placeId].state # "claimed" THEN "BarLocked"
  ELSE IF bars[placeId].claimedBy = teamCode THEN "CannotStealOwnBar"
  ELSE "ok"

\* the response: ensureTeam throws in the success branch before any write, and
\* in the failure branch (inside addPenalty) after the bar has been written
stealResult(teamCode, placeId) ==
  IF stealPrecheck(teamCode, placeId) # "ok" THEN stealPrecheck(teamCode, placeId)
  ELSE IF ~ensureTeam(teamCode) THEN "InvalidTeam"
  ELSE "ok"

\* a successful steal that forgets to reset the failure counter
stealSuccess_KeepFailures(bar, teamCode) ==
  [bar EXCEPT !.claimedBy = teamCode, !.lockedBy = NoCode]

stealSuccess(bar, teamCode) ==
  [bar EXCEPT !.claimedBy = teamCode, !.lockedBy = NoCode, !.attemptsFailed = 0]

LockThreshold == 2

\* a failed steal that counts and never locks
stealFail_NoLock(bar) == [bar EXCEPT !.attemptsFailed = @ + 1]

\* a failed steal that counts the failure twice
stealFail_CountTwice(bar) ==
  [bar EXCEPT !.attemptsFailed = @ + 2, !.state = "locked", !.lockedBy = bar.claimedBy]

stealFail(bar) ==
  IF bar.attemptsFailed + 1 >= LockThreshold
    THEN [bar EXCEPT !.attemptsFailed = @ + 1, !.state = "locked",
                     !.lockedBy = bar.claimedBy]
    ELSE [bar EXCEPT !.attemptsFailed = @ + 1]

stealAttempt(teamCode, placeId, success) ==
  /\ program = "server"
  /\ CanDispatch
  /\ IF stealPrecheck(teamCode, placeId) # "ok"
       THEN UNCHANGED <<bars, teams, acceptedFails>>
     ELSE IF success
       THEN IF ensureTeam(teamCode)
              THEN /\ teams[teamCode].score < MaxScore
                   /\ teams' = [teams EXCEPT ![teamCode] = addPoint(@)]
                   /\ bars' = [bars EXCEPT ![placeId] = stealSuccess(@, teamCode)]
                   /\ acceptedFails' = [acceptedFails EXCEPT ![placeId] = 0]
              ELSE UNCHANGED <<bars, teams, acceptedFails>>
     ELSE /\ bars' = [bars EXCEPT ![placeId] = stealFail(@)]
          /\ IF ensureTeam(teamCode)
               THEN /\ addPenalty(teams[teamCode], PenaltyMinutes).penaltyUntil - now
                         <= MaxPenalties * PenaltyMinutes * MinuteMs
                    /\ teams' = [teams EXCEPT ![teamCode] = addPenalty(@, PenaltyMinutes)]
                    /\ acceptedFails' = [acceptedFails EXCEPT ![placeId] = @ + 1]
               ELSE UNCHANGED <<teams, acceptedFails>>
  /\ UNCHANGED <<program, now, game, running>>

InitServer ==
  /\ program = "server"
  /\ now = 0
  /\ game = loadDB.game
  /\ teams = loadDB.teams
  /\ bars = loadDB.bars
  /\ acceptedFails = [p \in Places |-> 0]
  /\ running = {}

NextServer ==
  \/ Tick
  \/ \E w \in WindowInputs : initGame(w[1], w[2], Undefined)
  \/ \E c \in RosterCodes \cup {NoCode}, n \in NameInputs : createTeam(c, n)
  \/ resetState
  \/ \E c \in CodeInputs, p \in PlaceInputs, n \in NameInputs, ph \in PhotoInputs :
       claim(c, p, n, ph)
  \/ \E c \in CodeInputs, p \in PlaceInputs : lock(c, p)
  \/ \E c \in CodeInputs, p \in PlaceInputs, s \in BOOLEAN : stealAttempt(c, p, s)

SpecServer == InitServer /\ [][NextServer]_vars

(* ------------- server.js: the claim handler, reads then writes -------- *)
\* the handler up to `let bar = db.bars[placeId]` and the locked check: the
\* frame keeps what the handler has read
claimBegin(teamCode, placeId, name, photos) ==
  /\ program = "server"
  /\ CanDispatch
  /\ claimResult(teamCode, placeId, name) = "ok"
  /\ teams[teamCode].score < MaxScore
  /\ running' = running \cup {[teamCode |-> teamCode, placeId |-> placeId,
                               photos |-> photos, bar |-> readBar(placeId)]}
  /\ UNCHANGED <<program, now, game, teams, bars, acceptedFails>>

\* the rest of the handler: the bar write and the score
claimFinish(f) ==
  /\ program = "server"
  /\ f \in running
  /\ bars' = (f.placeId :> claimWrite(f.bar, f.teamCode, f.photos)) @@ bars
  /\ teams' = [teams EXCEPT ![f.teamCode] = addPoint(@)]
  /\ acceptedFails' = IF f.bar = NoBar THEN [acceptedFails EXCEPT ![f.placeId] = 0]
                      ELSE acceptedFails
  /\ running' = running \ {f}
  /\ UNCHANGED <<program, now, game>>

NextConc ==
  \/ \E c \in RosterCodes, n \in {"Bar"} : createTeam(c, n)
  \/ resetState
  \/ \E c \in CodeInputs, p \in Places, ph \in PhotoInputs : claimBegin(c, p, "Bar", ph)
  \/ \E f \in running : claimFinish(f)
  \/ \E c \in CodeInputs, p \in PlaceInputs : lock(c, p)
  \/ \E c \in CodeInputs, p \in PlaceInputs, s \in BOOLEAN : stealAttempt(c, p, s)

\* concurrently submitted requests: any request may be dispatched whenever the
\* event loop is free
SpecConc == InitServer /\ [][NextConc]_vars

(* ------------------- server.js: decks and challenges ------------------ *)
\* the clock of the challenge-deck runs advances by a penalty or by a
\* minimum attempt time
DeckTickSteps == {PenaltyMinutes * MinuteMs, MinAttemptMinutes * MinuteMs}

TickDeck(d) ==
  /\ program = "server"
  /\ now + d <= MaxDeckMinutes * MinuteMs
  /\ now' = now + d
  /\ UNCHANGED <<program, game, teams, bars, acceptedFails, running>>

\* rows.map(...): the card of row idx
cardOfRow(r, idx) ==
  [id |-> <<"card", idx>>, type |-> IF r.type = "" THEN "challenge" ELSE r.type,
   text |-> r.text]

\* rows.map(...).filter(c => c.text)
parseDeck(rows) ==
  LET mapped == [i \in 1..Len(rows) |-> cardOfRow(rows[i], i)]
      keep(c) == c.text # ""
  IN SelectSeq(mapped, keep)

uploadDeckResult(file) == IF file = NoFile THEN "NoFile" ELSE "ok"

uploadDeck(file) ==
  /\ program = "server"
  /\ CanDispatch
  /\ game' = IF uploadDeckResult(file) = "ok"
               THEN [game EXCEPT !.masterDeck = parseDeck(file)]
               ELSE game
  /\ UNCHANGED <<program, now, teams, bars, acceptedFails, running>>

\* String(n): the code units of the decimal digits of n
RECURSIVE Digits(_)
Digits(n) == IF n < 10 THEN <<48 + n>> ELSE Digits(n \div 10) \o <<48 + (n % 10)>>

\* teamCode + ":" + now()
seedOf(teamCode) == CodeUnits[teamCode] \o <<58>> \o Digits(now)

\* a ^ b on non-negative operands
RECURSIVE Xor(_, _)
Xor(a, b) ==
  IF a = 0 THEN b ELSE IF b = 0 THEN a
  ELSE ((a + b) % 2) + 2 * Xor(a \div 2, b \div 2)

\* `for (...) s ^= seed.charCodeAt(i)`
RECURSIVE seedState(_, _)
seedState(seed, s) ==
  IF seed = <<>> THEN s ELSE seedState(Tail(seed), Xor(s, Head(seed)))

\* an unsigned 32-bit value is kept as its two 16-bit halves
Half == 65536
Word(hi, lo) == [hi |-> hi, lo |-> lo]

\* a step that truncates to a signed 32-bit value, as `| 0` would
lcg_Signed(s) ==
  LET low == s.lo * 26125 + 62303
      high == s.hi * 26125 + s.lo * 25 + 15470 + (low \div Half)
  IN [hi |-> ((high + 32768) % Half) - 32768, lo |-> low % Half]

\* (s * 1664525 + 1013904223) >>> 0; 1664525 = 25 * 2^16 + 26125 and
\* 1013904223 = 15470 * 2^16 + 62303
lcg(s) ==
  LET low == s.lo * 26125 + 62303
      high == s.hi * 26125 + s.lo * 25 + 15470 + (low \div Half)
  IN Word(high % Half, low % Half)

\* s % m for a small m
wordMod(s, m) == ((s.hi % m) * (Half % m) + (s.lo % m)) % m

swap(a, i, j) == [a EXCEPT ![i] = a[j], ![j] = a[i]]

\* the loop of shuffle from index i (0-based) downwards
RECURSIVE shuffleFrom(_, _, _)
shuffleFrom(a, i, s) ==
  IF i <= 0 THEN a
  ELSE shuffleFrom(swap(a, i + 1, wordMod(lcg(s), i + 1) + 1), i - 1, lcg(s))

\* a shuffle whose generator also reads the clock
shuffle_Clocked(arr, seed) ==
  shuffleFrom(arr, Len(arr) - 1, Word(0, Xor(seedState(seed, 0), now \div MinuteMs)))

shuffle(arr, seed) == shuffleFrom(arr, Len(arr) - 1, Word(0, seedState(seed, 0)))

hasActive(t) == t.activeChallenge.status = "active"

\* a draw that shuffles afresh every time
initDeck_EveryDraw(t, teamCode) ==
  [t EXCEPT !.deckSeed = seedOf(teamCode),
            !.deck = shuffle(game.masterDeck, seedOf(teamCode)),
            !.drawn = <<>>]

\* the deck initialisation of drawCard
initDeck(t, teamCode) ==
  IF Len(t.deck) = 0
    THEN [t EXCEPT !.deckSeed = IF t.deckSeed # <<>> THEN t.deckSeed ELSE seedOf(teamCode),
                   !.deck = shuffle(game.masterDeck,
                                    IF t.deckSeed # <<>> THEN t.deckSeed
                                    ELSE seedOf(teamCode)),
                   !.drawn = <<>>]
    ELSE t

isDrawn(t, id) == \E k \in 1..Len(t.drawn) : t.drawn[k] = id

\* a draw that ignores the drawn list
undrawn_All(t) == {i \in 1..Len(t.deck) : TRUE}

\* the positions of the deck whose card is not in drawn
undrawn(t) == {i \in 1..Len(t.deck) : ~isDrawn(t, t.deck[i].id)}

NoCard == [id |-> <<"none", 0>>]

\* team.deck.find(c => !team.drawn.includes(c.id))
nextCard(t) ==
  IF undrawn(t) = {} THEN NoCard
  ELSE t.deck[CHOOSE i \in undrawn(t) : \A k \in undrawn(t) : i <= k]

\* a draw handler without the active-challenge check
drawCardResult_NoActiveCheck(teamCode) ==
  IF ~withinGameTime THEN "GameWindowClosed"
  ELSE IF Len(game.masterDeck) = 0 THEN "DeckNotLoaded"
  ELSE IF ~ensureTeam(teamCode) THEN "InvalidTeam"
  ELSE IF isPenalized(teamCode) THEN "PenaltyActive"
  ELSE IF nextCard(initDeck(teams[teamCode], teamCode)) = NoCard THEN "DeckExhausted"
  ELSE "ok"

drawCardResult(teamCode) ==
  IF ~withinGameTime THEN "GameWindowClosed"
  ELSE IF Len(game.masterDeck) = 0 THEN "DeckNotLoaded"
  ELSE IF ~ensureTeam(teamCode) THEN "InvalidTeam"
  ELSE IF isPenalized(teamCode) THEN "PenaltyActive"
  ELSE IF hasActive(teams[teamCode]) THEN "ChallengeAlreadyActive"
  ELSE IF nextCard(initDeck(teams[teamCode], teamCode)) = NoCard THEN "DeckExhausted"
  ELSE "ok"

\* team.activeChallenge = {...}
startChallenge(t, card) ==
  [t EXCEPT !.activeChallenge =
     [cardId |-> card.id, text |-> card.text, type |-> card.type,
      startedAt |-> now, status |-> "active"]]

drawCard(teamCode) ==
  /\ program = "server"
  /\ CanDispatch
  /\ teams' =
       IF drawCardResult(teamCode) = "ok"
         THEN [teams EXCEPT ![teamCode] =
                 startChallenge(initDeck(@, teamCode), nextCard(initDeck(@, teamCode)))]
       ELSE IF drawCardResult(teamCode) = "DeckExhausted"
         THEN [teams EXCEPT ![teamCode] = initDeck(@, teamCode)]
       ELSE teams
  /\ UNCHANGED <<program, now, game, bars, acceptedFails, running>>

\* a resolution that records the card twice
finishCard_PushTwice(t) ==
  [t EXCEPT !.drawn = Append(Append(t.drawn, t.activeChallenge.cardId),
                             t.activeChallenge.cardId),
            !.activeChallenge = NoChallenge]

\* a resolution that forgets to record the card
finishCard_NoPush(t) == [t EXCEPT !.activeChallenge = NoChallenge]

\* team.drawn.push(act.cardId); team.activeChallenge = null
finishCard(t) ==
  [t EXCEPT !.drawn = Append(t.drawn, t.activeChallenge.cardId),
            !.activeChallenge = NoChallenge]

completeChallengeResult(teamCode) ==
  IF ~ensureTeam(teamCode) THEN "InvalidTeam"
  ELSE IF ~hasActive(teams[teamCode]) THEN "NoActiveChallenge"
  ELSE "ok"

completeChallenge(teamCode) ==
  /\ program = "server"
  /\ CanDispatch
  /\ teams' = IF completeChallengeResult(teamCode) = "ok"
                THEN [teams EXCEPT ![teamCode] = finishCard(@)]
                ELSE teams
  /\ UNCHANGED <<program, now, game, bars, acceptedFails, running>>

\* a veto that is still refused at exactly the minimum attempt time
tooEarly_Inclusive(t) ==
  now - t.activeChallenge.startedAt <= MinAttemptMinutes * MinuteMs

\* elapsed = (now() - act.startedAt) / 60000; elapsed < 12
tooEarly(t) == now - t.activeChallenge.startedAt < MinAttemptMinutes * MinuteMs

vetoChallengeResult(teamCode) ==
  IF ~ensureTeam(teamCode) THEN "InvalidTeam"
  ELSE IF ~hasActive(teams[teamCode]) THEN "NoActiveChallenge"
  ELSE IF tooEarly(teams[teamCode]) THEN "VetoTooEarly"
  ELSE "ok"

vetoChallenge(teamCode) ==
  /\ program = "server"
  /\ CanDispatch
  /\ teams' = IF vetoChallengeResult(teamCode) = "ok"
                THEN [teams EXCEPT ![teamCode] = addPenalty(finishCard(@), PenaltyMinutes)]
                ELSE teams
  /\ UNCHANGED <<program, now, game, bars, acceptedFails, running>>

NextDeck ==
  \/ \E d \in DeckTickSteps : TickDeck(d)
  \/ \E c \in RosterCodes : createTeam(c, "Bar")
  \/ \E f \in FileInputs : uploadDeck(f)
  \/ resetState
  \/ \E c \in CodeInputs : drawCard(c)
  \/ \E c \in CodeInputs : completeChallenge(c)
  \/ \E c \in CodeInputs : vetoChallenge(c)
  \/ \E w \in WindowInputs : initGame(w[1], w[2], Undefined)
  \/ claim("T1", "B1", "Bar", {"teamPhoto", "drinksPhoto"})
  \/ stealAttempt("T2", "B1", FALSE)

\* the challenge engine of server.js: decks, draws, completions and vetoes,
\* with one bar that T1 claims and T2 fails to steal, so that penalties of
\* failed steals meet draws and vetoes
SpecDeck == InitServer /\ [][NextDeck]_vars

(* ----------------------- unnamed/part_000 ----------------------------- *)
ACTIVE_GAME_CODE == "Testing123"
AccessInputs == {ACTIVE_GAME_CODE, "rajuiskadak", ""}
DisplayInputs == {"Raj", ""}

pNewTeam == [score |-> 0]

syncTeams(ts) ==
  [c \in ConfigCodes \cup DOMAIN ts |-> IF c \in DOMAIN ts THEN ts[c] ELSE pNewTeam]

pJoinResult(accessCode, teamCode, displayName) ==
  IF accessCode = "" \/ accessCode # ACTIVE_GAME_CODE THEN "InvalidGameCode"
  ELSE IF teamCode = NoCode \/ displayName = "" THEN "MissingFields"
  ELSE IF teamCode \notin ConfigCodes THEN "InvalidTeamCode"
  ELSE "ok"

pJoin(accessCode, teamCode, displayName) ==
  /\ program = "part_000"
  /\ teams' = IF pJoinResult(accessCode, teamCode, displayName) = "ok"
                THEN syncTeams(teams) ELSE teams
  /\ UNCHANGED <<program, now, game, bars, acceptedFails, running>>

\* a precheck that does not look the team up
pClaimPrecheck_NoTeamCheck(teamCode, hasFile, action) ==
  IF teamCode = NoCode THEN "MissingTeamCode"
  ELSE IF ~hasFile /\ action = "claim" THEN "MissingProof"
  ELSE "ok"

\* the checks before the bar record is looked up
pClaimPrecheck(teamCode, hasFile, action) ==
  IF teamCode = NoCode THEN "MissingTeamCode"
  ELSE IF ~hasFile /\ action = "claim" THEN "MissingProof"
  ELSE IF ~ensureTeam(teamCode) THEN "InvalidTeam"
  ELSE "ok"

pNewBar == [owner |-> NoCode, locked |-> FALSE]

\* `if (!db.bars[placeId]) db.bars[placeId] = {...}`
pEnsureBar(bs, placeId) ==
  IF placeId \in DOMAIN bs THEN bs ELSE (placeId :> pNewBar) @@ bs

\* a lock handler that forgets the owner check
pLockAllowed_NoOwnerCheck(bar, teamCode) == TRUE

pLockAllowed(bar, teamCode) == bar.owner = teamCode

pClaimResult(teamCode, placeId, hasFile, action) ==
  IF pClaimPrecheck(teamCode, hasFile, action) # "ok"
    THEN pClaimPrecheck(teamCode, hasFile, action)
  ELSE IF action = "lock"
    THEN IF ~pLockAllowed(pEnsureBar(bars, placeId)[placeId], teamCode)
           THEN "BarNotOwnedByCaller"
         ELSE IF pEnsureBar(bars, placeId)[placeId].locked THEN "AlreadyLocked"
         ELSE "ok"
  ELSE IF pEnsureBar(bars, placeId)[placeId].locked THEN "BarLocked"
  ELSE "ok"

\* the bar after a successful call
pClaimBar(bar, teamCode, action) ==
  IF action = "lock" THEN [bar EXCEPT !.locked = TRUE]
  ELSE IF bar.owner # teamCode THEN [bar EXCEPT !.owner = teamCode]
  ELSE bar

\* a scoring rule that pays every claim, also on an owned bar
pClaimTeam_EveryClaim(t, bar, action) ==
  IF action # "lock" THEN [t EXCEPT !.score = t.score + 1] ELSE t

\* the caller's team record after a successful call
pClaimTeam(t, bar, action) ==
  IF action # "lock" /\ bar.owner = NoCode THEN [t EXCEPT !.score = t.score + 1]
  ELSE t

pClaim(teamCode, placeId, hasFile, action) ==
  /\ program = "part_000"
  /\ IF pClaimPrecheck(teamCode, hasFile, action) # "ok"
       THEN UNCHANGED <<bars, teams>>
     ELSE IF pClaimResult(teamCode, placeId, hasFile, action) # "ok"
       THEN bars' = pEnsureBar(bars, placeId) /\ teams' = teams
     ELSE /\ bars' = [pEnsureBar(bars, placeId) EXCEPT
                        ![placeId] = pClaimBar(@, teamCode, action)]
          /\ teams' = [teams EXCEPT ![teamCode] =
                         pClaimTeam(@, pEnsureBar(bars, placeId)[placeId], action)]
  /\ UNCHANGED <<program, now, game, acceptedFails, running>>

InitPart000 ==
  /\ program = "part_000"
  /\ now = 0
  /\ game = [accessCode |-> ACTIVE_GAME_CODE]
  /\ teams = syncTeams(Empty)
  /\ bars = Empty
  /\ acceptedFails = [p \in Places |-> 0]
  /\ running = {}

NextPart000 ==
  \/ \E a \in AccessInputs, c \in PCodeInputs, d \in DisplayInputs : pJoin(a, c, d)
  \/ \E c \in PCodeInputs, p \in Places, f \in BOOLEAN, a \in ActionInputs :
       pClaim(c, p, f, a)

(* ------------------------- the two programs --------------------------- *)
Init == InitServer \/ InitPart000

Next == NextServer \/ NextPart000

Spec == Init /\ [][Next]_vars

(* --------------------------- the lobby -------------------------------- *)
NextLobby ==
  \/ Tick
  \/ \E st \in LobbyBounds, en \in LobbyBounds, ac \in LobbyCodes : initGame(st, en, ac)
  \/ \E c \in RosterCodes : createTeam(c, "Bar")
  \/ \E a \in JoinCodes, c \in CodeInputs, d \in JoinNames : join(a, c, d)
  \/ \E c \in RosterCodes : claim(c, "B1", "Bar", {"teamPhoto", "drinksPhoto"})

\* setting up and joining a game in either program: every window and access
\* code an administrator can post, joins, and claims of one bar
SpecLobby == Init /\ [][NextLobby \/ NextPart000]_vars

(* ---------------- server.js: shuffle, statement by statement ---------- *)
MaxShuffleLen == 5

\* master decks of 0 to MaxShuffleLen cards
ShuffleDecks ==
  {parseDeck([k \in 1..n |-> [type |-> "challenge", text |-> "X"]]) : n \in 0..MaxShuffleLen}

\* seed strings as code units: "", "T1:0", "T2:150000", "T1:720000", "a",
\* "zz", one unit of 65535, 65535 followed by 1, "Bar 7"
ShuffleSeeds ==
  { <<>>, <<84, 49, 58, 48>>, <<84, 50, 58, 49, 53, 48, 48, 48, 48>>,
    <<84, 49, 58, 55, 50, 48, 48, 48, 48>>, <<97>>, <<122, 122>>,
    <<65535>>, <<65535, 1>>, <<66, 97, 114, 32, 55>> }

\* `let a = arr.slice(); let s = 0; for (...) s ^= seed.charCodeAt(i)` and the
\* loop head `let i = a.length - 1`; j is the last swap index, -1 before the
\* first iteration
shuffleCall(arr, seed) ==
  /\ program = "server"
  /\ running = {}
  /\ running' = {[arr |-> arr, seed |-> seed, a |-> arr, i |-> Len(arr) - 1,
                  s |-> Word(0, seedState(seed, 0)), j |-> -1]}
  /\ UNCHANGED <<program, now, game, teams, bars, acceptedFails>>

\* one iteration: the generator step, the index, the swap, i--
shuffleLoop(f) ==
  /\ program = "server"
  /\ f \in running
  /\ f.i > 0
  /\ running' = {[f EXCEPT !.s = lcg(f.s),
                           !.j = wordMod(lcg(f.s), f.i + 1),
                           !.a = swap(f.a, f.i + 1, wordMod(lcg(f.s), f.i + 1) + 1),
                           !.i = f.i - 1]}
  /\ UNCHANGED <<program, now, game, teams, bars, acceptedFails>>

\* `return a`
shuffleReturn(f) ==
  /\ program = "server"
  /\ f \in running
  /\ f.i <= 0
  /\ running' = {}
  /\ UNCHANGED <<program, now, game, teams, bars, acceptedFails>>

InitShuffle ==
  /\ program = "server"
  /\ now = 0
  /\ \E m \in ShuffleDecks : game = [loadDB.game EXCEPT !.masterDeck = m]
  /\ teams = loadDB.teams
  /\ bars = loadDB.bars
  /\ acceptedFails = [p \in Places |-> 0]
  /\ running = {}

NextShuffle ==
  \/ \E seed \in ShuffleSeeds : shuffleCall(game.masterDeck, seed)
  \/ \E f \in running : shuffleLoop(f)
  \/ \E f \in running : shuffleReturn(f)

\* calls of shuffle on the master deck, for every deck and seed of the sets
SpecShuffle == InitShuffle /\ [][NextShuffle]_vars

(* ------------- server.js: which calls reach broadcastState ------------ *)
\* io.emit("state", {game, teams, bars}) is the last statement before the ok
\* response of a handler; a handler that returns earlier does not reach it
initGameBroadcasts == TRUE

createTeamBroadcasts(teamCode, name) == createTeamResult(teamCode, name) = "ok"

\* the handler ends with saveDB(db) and the response
uploadDeckBroadcasts(file) == FALSE

resetStateBroadcasts == TRUE

drawCardBroadcasts(teamCode) == drawCardResult(teamCode) = "ok"

completeChallengeBroadcasts(teamCode) == completeChallengeResult(teamCode) = "ok"

vetoChallengeBroadcasts(teamCode) == vetoChallengeResult(teamCode) = "ok"

claimBroadcasts(teamCode, placeId, name) == claimResult(teamCode, placeId, name) = "ok"

stealAttemptBroadcasts(teamCode, placeId) == stealResult(teamCode, placeId) = "ok"

(* ------------------------------ views --------------------------------- *)
\* the owner and the locked flag of a bar record, in either program
Owner(bar) == IF program = "server" THEN bar.claimedBy ELSE bar.owner
Locked(bar) == IF program = "server" THEN bar.state = "locked" ELSE bar.locked
OwnedCount(t) == Cardinality({p \in DOMAIN bars : Owner(bars[p]) = t})

(* ------------------------------ claims -------------------------------- *)
\* C1: in every reachable state every locked bar has a non-null owner
\* (server.js: state = "locked" implies claimedBy is set; part_000: locked
\* implies owner is set).
C1_LockedHasOwner ==
  \A p \in DOMAIN bars : Locked(bars[p]) => Owner(bars[p]) # NoCode

\* a bar of part_000 has been locked by its owner
C1_Witness ==
  \E p \in DOMAIN bars :
    program = "part_000" /\ bars[p].locked /\ bars[p].owner \in ConfigCodes

\* C2: for every team, the score in the state snapshot is the number of bars
\* the team currently owns plus its adjustment (no handler sets an adjustment,
\* so it is 0).
C2_ScoreIsOwnedCount ==
  \A t \in DOMAIN teams : teams[t].score = OwnedCount(t) + 0

\* C3: a call that ends in an error (a rejected response or a thrown
\* 'Invalid team.') leaves teams and bars as they were.
C3_RejectedCallWritesNothing ==
  [][ /\ \A c \in CodeInputs, p \in PlaceInputs, n \in NameInputs, ph \in PhotoInputs :
           claim(c, p, n, ph) /\ claimResult(c, p, n) # "ok"
             => UNCHANGED <<teams, bars>>
      /\ \A c \in CodeInputs, p \in PlaceInputs :
           lock(c, p) /\ lockResult(c, p) # "ok" => UNCHANGED <<teams, bars>>
      /\ \A c \in CodeInputs, p \in PlaceInputs, s \in BOOLEAN :
           stealAttempt(c, p, s) /\ stealResult(c, p) # "ok"
             => UNCHANGED <<teams, bars>>
      /\ \A c \in PCodeInputs, p \in Places, f \in BOOLEAN, a \in ActionInputs :
           pClaim(c, p, f, a) /\ pClaimResult(c, p, f, a) # "ok"
             => UNCHANGED <<teams, bars>>
    ]_vars

C5_ClaimOnceThenIdempotent ==
  [][ /\ \A c \in CodeInputs, p \in PlaceInputs, n \in NameInputs, ph \in PhotoInputs :
           claim(c, p, n, ph) /\ claimResult(c, p, n) = "ok"
             => /\ p \notin DOMAIN bars
                     => teams' = [teams EXCEPT ![c].score = @ + 1]
                /\ p \in DOMAIN bars /\ bars[p].claimedBy = c
                     => UNCHANGED <<teams, bars>>
      /\ \A c \in PCodeInputs, p \in Places, f \in BOOLEAN, a \in {"claim", "none"} :
           pClaim(c, p, f, a) /\ pClaimResult(c, p, f, a) = "ok"
             => /\ pEnsureBar(bars, p)[p].owner = NoCode
                     => teams' = [teams EXCEPT ![c].score = @ + 1]
                /\ p \in DOMAIN bars /\ bars[p].owner = c
                     => UNCHANGED <<teams, bars>>
    ]_vars

\* C6: a claim call made without proof always fails with MissingProof and
\* leaves bars and scores unchanged.
C6_NoProofIsRejected ==
  [][ /\ \A c \in CodeInputs, p \in PlaceInputs, n \in NameInputs :
           claim(c, p, n, {})
             => claimResult(c, p, n) = "MissingProof" /\ UNCHANGED <<teams, bars>>
      /\ \A c \in PCodeInputs, p \in Places, a \in {"claim", "none"} :
           pClaim(c, p, FALSE, a)
             => pClaimResult(c, p, FALSE, a) = "MissingProof"
                /\ UNCHANGED <<teams, bars>>
    ]_vars

\* a step that changes the owner of a bar that already has one
OwnerChanges(p) ==
  /\ p \in DOMAIN bars /\ p \in DOMAIN bars'
  /\ Owner(bars[p]) # NoCode
  /\ Owner(bars'[p]) # Owner(bars[p])

\* C7 as stated: a claim on a bar Claimed by a different team fails and
\* leaves the owner unchanged; the owner of an already-claimed bar changes
\* only through a stealAttempt with assertedSuccess = true.
C7_ClaimOnOthersBarFails ==
  [][ /\ \A c \in CodeInputs, p \in Places, n \in NameInputs, ph \in PhotoInputs :
           claim(c, p, n, ph) /\ p \in DOMAIN bars /\ bars[p].claimedBy # c
             => claimResult(c, p, n) # "ok" /\ bars'[p].claimedBy = bars[p].claimedBy
      /\ \A c \in PCodeInputs, p \in Places, f \in BOOLEAN, a \in {"claim", "none"} :
           pClaim(c, p, f, a) /\ p \in DOMAIN bars /\ bars[p].owner \notin {NoCode, c}
             => pClaimResult(c, p, f, a) # "ok" /\ bars'[p].owner = bars[p].owner
      /\ \A p \in Places :
           OwnerChanges(p) => \E c \in CodeInputs : stealAttempt(c, p, TRUE)
    ]_vars

\* C7 amended: a claim on an unlocked bar Claimed by a different team is
\* accepted whenever the call passes the handler's other checks, and it makes
\* the caller the owner; the owner of an already-claimed bar changes only
\* through such a claim or a stealAttempt with assertedSuccess = true.
C7_ClaimOnOthersBarTakesOver ==
  [][ /\ program = "server" =>
           \A p \in DOMAIN bars, c \in DOMAIN teams :
             /\ bars[p].claimedBy # c /\ bars[p].state = "claimed"
             /\ withinGameTime /\ ~isPenalized(c)
             /\ \E ph \in PhotoInputs : claim(c, p, "Bar", ph)
             => /\ claimResult(c, p, "Bar") = "ok"
                /\ bars'[p].claimedBy = c /\ bars'[p].state = "claimed"
      /\ program = "part_000" =>
           \A p \in DOMAIN bars, c \in DOMAIN teams, f \in BOOLEAN, a \in {"claim", "none"} :
             /\ bars[p].owner \notin {NoCode, c} /\ ~bars[p].locked
             /\ f \/ a # "claim"
             /\ pClaim(c, p, f, a)
             => /\ pClaimResult(c, p, f, a) = "ok"
                /\ bars'[p].owner = c /\ ~bars'[p].locked
      /\ \A p \in Places :
           OwnerChanges(p)
             => \/ \E c \in CodeInputs : stealAttempt(c, p, TRUE)
                \/ \E c \in CodeInputs, n \in NameInputs, ph \in PhotoInputs :
                     claim(c, p, n, ph) /\ bars'[p].claimedBy = c
                \/ \E c \in PCodeInputs, f \in BOOLEAN, a \in {"claim", "none"} :
                     pClaim(c, p, f, a) /\ bars'[p].owner = c
    ]_vars

\* T2 failed a steal on T1's bar, served its penalty and then took the bar
\* with a plain claim: the failed attempt is still counted and T1, never
\* penalized, cannot have failed it
C7_Witness ==
  /\ program = "server"
  /\ "B1" \in DOMAIN bars /\ DOMAIN teams = {"T1", "T2"}
  /\ bars["B1"].claimedBy = "T2" /\ bars["B1"].state = "claimed"
  /\ bars["B1"].attemptsFailed = 1 /\ acceptedFails["B1"] = 1
  /\ teams["T1"].penaltyUntil = 0 /\ teams["T2"].penaltyUntil # 0

\* the responses of the checks a handler makes before it looks at the bar
EarlierRejections ==
  {"GameWindowClosed", "MissingFields", "InvalidTeam", "PenaltyActive",
   "MissingTeamCode", "MissingProof"}

\* every claim / stealAttempt on a Locked bar is rejected, with BarLocked
\* unless an earlier check of the handler has already rejected the call
LockedBarRejectsCalls ==
  \A p \in DOMAIN bars :
    Locked(bars[p]) =>
      IF program = "server"
        THEN /\ \A c \in CodeInputs, n \in NameInputs :
                  claimResult(c, p, n) \in EarlierRejections \cup {"BarLocked"}
             /\ \A c \in CodeInputs :
                  stealResult(c, p) \in EarlierRejections \cup {"BarLocked"}
        ELSE \A c \in PCodeInputs, f \in BOOLEAN, a \in {"claim", "none"} :
               pClaimResult(c, p, f, a) \in EarlierRejections \cup {"BarLocked"}

\* C8: once a bar is Locked, every later claim and stealAttempt on it is
\* rejected (BarLocked), and its owner and locked status never change again
\* until an administrative reset.
C8_LockedIsFinal ==
  /\ []LockedBarRejectsCalls
  /\ [][ \A p \in DOMAIN bars :
           Locked(bars[p]) => \/ resetState
                              \/ p \in DOMAIN bars' /\ bars'[p] = bars[p]
       ]_vars

\* a bar locked by two accepted failed steals, in an open window, with a
\* registered team that does not own it
C8_Witness ==
  /\ program = "server" /\ withinGameTime
  /\ \E p \in DOMAIN bars, c \in DOMAIN teams :
       /\ bars[p].state = "locked" /\ bars[p].attemptsFailed = 2
       /\ acceptedFails[p] = 2 /\ bars[p].claimedBy # c

\* C9: two failed stealAttempts on a Claimed bar with no successful steal in
\* between lock it for its owner; a successful steal resets
\* failedStealAttempts to 0, so a single later failure does not lock the bar.
\* acceptedFails[p] counts the failed attempts on p that were answered ok
\* since the bar was created or last stolen.
C9_TwoStrikes ==
  [][ \A c \in CodeInputs, p \in Places :
        /\ stealAttempt(c, p, FALSE) /\ stealResult(c, p) = "ok"
             => IF acceptedFails[p] = 0
                  THEN bars'[p].state = "claimed"
                  ELSE /\ bars'[p].state = "locked"
                       /\ bars'[p].lockedBy = bars[p].claimedBy
                       /\ bars'[p].claimedBy = bars[p].claimedBy
        /\ stealAttempt(c, p, TRUE) /\ stealResult(c, p) = "ok"
             => bars'[p].attemptsFailed = 0
    ]_vars

\* C10: whenever an operation changes a bar's owner, the bar's
\* failedStealAttempts is 0 immediately afterwards.  Stated for bars whose
\* counter holds accepted failures only.
C10_OwnerChangeResetsFailures ==
  [][ \A p \in Places :
        /\ program = "server" /\ p \in DOMAIN bars /\ p \in DOMAIN bars'
             /\ bars[p].attemptsFailed = acceptedFails[p]
             /\ bars'[p].claimedBy # bars[p].claimedBy
             => bars'[p].attemptsFailed = 0
        /\ program = "server" /\ p \notin DOMAIN bars /\ p \in DOMAIN bars'
             => bars'[p].attemptsFailed = 0
    ]_vars

C12_StealFailureCountsAndPenalizes ==
  [][ \A p \in DOMAIN bars, c \in DOMAIN teams :
        /\ program = "server" /\ bars' # bars /\ stealResult(c, p) = "ok"
        /\ stealAttempt(c, p, FALSE)
        => /\ bars[p].claimedBy \notin {c, NoCode}
           /\ bars'[p].claimedBy = bars[p].claimedBy
           /\ bars'[p].attemptsFailed = bars[p].attemptsFailed + 1
           /\ teams'[c].penaltyUntil =
                Max(now, teams[c].penaltyUntil) + PenaltyMinutes * MinuteMs
           /\ \A t \in DOMAIN teams :
                /\ teams'[t].score = teams[t].score
                /\ t # c => teams'[t].penaltyUntil = teams[t].penaltyUntil
    ]_vars

\* a claimed bar carries one accepted failed attempt and exactly one team is
\* under penalty
C12_Witness ==
  \E p \in DOMAIN bars, c \in DOMAIN teams :
    /\ program = "server"
    /\ bars[p].state = "claimed" /\ bars[p].claimedBy # c
    /\ bars[p].attemptsFailed = 1 /\ acceptedFails[p] = 1
    /\ teams[c].penaltyUntil = PenaltyMinutes * MinuteMs
    /\ \A t \in DOMAIN teams \ {c} : teams[t].penaltyUntil = 0

\* C13: while the game window is open, a stealAttempt on an unlocked bar by
\* the team that owns it is answered CannotStealOwnBar and a stealAttempt on
\* a bar no team has claimed (no record: "Unknown bar.") is answered as not
\* claimed, whatever assertedSuccess is; a call answered so changes no bar,
\* score or penalty.
C13_StealOwnOrUnclaimedFails ==
  /\ [](program = "server" /\ withinGameTime =>
          \A c \in CodeInputs, p \in PlaceInputs :
            /\ p \in DOMAIN bars /\ bars[p].state = "claimed" /\ bars[p].claimedBy = c
                 => stealResult(c, p) = "CannotStealOwnBar"
            /\ p \notin DOMAIN bars => stealResult(c, p) = "UnknownBar")
  /\ [][ program = "server" /\ ~UNCHANGED <<bars, teams>>
           => \A c \in CodeInputs, p \in PlaceInputs, s \in BOOLEAN :
                stealResult(c, p) \in {"CannotStealOwnBar", "UnknownBar"}
                  => ~stealAttempt(c, p, s)
       ]_vars

\* one bar is claimed and unlocked while another has no record, in an open
\* game window: both rejections can be provoked
C13_Witness ==
  /\ program = "server" /\ withinGameTime
  /\ \E p \in DOMAIN bars : bars[p].state = "claimed" /\ bars[p].attemptsFailed = 0
  /\ \E p \in Places : p \notin DOMAIN bars

\* C14: lock is accepted exactly for a bar that is Claimed, not locked, by
\* the calling team (server.js: while the window is open); for every other
\* team, and for a bar no team has claimed (server.js answers "Unknown
\* bar."), the call is rejected as not owned by the caller; an accepted lock
\* makes the bar Locked, keeps its owner and changes no score.
C14_OnlyOwnerLocks ==
  /\ [](program = "server" =>
          \A c \in CodeInputs, p \in PlaceInputs :
            /\ lockResult(c, p) = "ok"
                 <=> /\ withinGameTime /\ p \in DOMAIN bars
                     /\ bars[p].state = "claimed" /\ bars[p].claimedBy = c
            /\ withinGameTime /\ (p \notin DOMAIN bars \/ bars[p].claimedBy # c)
                 => /\ lockResult(c, p) \in {"BarNotOwnedByCaller", "UnknownBar"}
                    /\ lockResult(c, p) = "UnknownBar" <=> p \notin DOMAIN bars)
  /\ [](program = "part_000" =>
          \A c \in PCodeInputs, p \in Places, f \in BOOLEAN :
            /\ pClaimResult(c, p, f, "lock") = "ok"
                 <=> /\ ensureTeam(c) /\ p \in DOMAIN bars
                     /\ bars[p].owner = c /\ ~bars[p].locked
            /\ ensureTeam(c) /\ (p \notin DOMAIN bars \/ bars[p].owner # c)
                 => pClaimResult(c, p, f, "lock") = "BarNotOwnedByCaller")
  /\ [][ /\ program = "server" /\ ~UNCHANGED <<bars, teams>>
              => \A c \in CodeInputs, p \in PlaceInputs :
                   IF lockResult(c, p) # "ok" THEN ~lock(c, p)
                   ELSE lock(c, p)
                          => /\ bars'[p].state = "locked"
                             /\ bars'[p].claimedBy = bars[p].claimedBy
                             /\ bars[p].claimedBy # NoCode
                             /\ teams' = teams
         /\ program = "part_000" /\ ~UNCHANGED <<bars, teams>>
              => \A c \in PCodeInputs, p \in Places, f \in BOOLEAN :
                   pClaim(c, p, f, "lock")
                   => IF pClaimResult(c, p, f, "lock") = "ok"
                        THEN /\ bars'[p].locked /\ bars'[p].owner = bars[p].owner
                             /\ bars[p].owner # NoCode
                             /\ teams' = teams
                        ELSE /\ \A q \in DOMAIN bars : bars'[q] = bars[q]
                             /\ teams' = teams
       ]_vars

\* a bar of server.js that was locked by its owner (no failed steal on it)
\* while the other team is registered
C14_Witness ==
  \E p \in DOMAIN bars :
    /\ program = "server" /\ bars[p].state = "locked"
    /\ bars[p].attemptsFailed = 0 /\ bars[p].lockedBy = bars[p].claimedBy
    /\ DOMAIN teams = RosterCodes

\* C15: while a team is penalized, every claim, stealAttempt and drawCard
\* call of that team is rejected and changes nothing.
C15_PenalizedTeamIsRejected ==
  [][ \A c \in RosterCodes :
        program = "server" /\ ensureTeam(c) /\ isPenalized(c)
        => /\ \A p \in PlaceInputs, n \in NameInputs, ph \in PhotoInputs :
                claim(c, p, n, ph)
                  => claimResult(c, p, n) # "ok" /\ UNCHANGED <<teams, bars>>
           /\ \A p \in PlaceInputs, s \in BOOLEAN :
                stealAttempt(c, p, s)
                  => stealResult(c, p) # "ok" /\ UNCHANGED <<teams, bars>>
           /\ drawCard(c)
                  => drawCardResult(c) # "ok" /\ UNCHANGED <<teams, bars>>
    ]_vars

\* C16: addPenalty sets penaltyUntil to max(now, previous penaltyUntil or 0)
\* plus the duration: a penalty on a team that is still penalized adds the
\* full duration to the existing expiry, a penalty on a team whose penalty is
\* unset or expired runs from now (both callers: a failed stealAttempt and a
\* veto, 5 minutes each).
C16_PenaltyStacksOrRestarts ==
  [][ \A c \in RosterCodes :
        /\ program = "server" /\ ensureTeam(c)
        /\ \/ \E p \in Places : stealResult(c, p) = "ok" /\ stealAttempt(c, p, FALSE)
           \/ vetoChallengeResult(c) = "ok" /\ vetoChallenge(c)
        => teams'[c].penaltyUntil =
             (IF teams[c].penaltyUntil # 0 /\ now < teams[c].penaltyUntil
                THEN teams[c].penaltyUntil ELSE now) + 5 * 60000
    ]_vars

\* a veto, 12 minutes into the run, has added its 5 minutes to the penalty
\* of an earlier failed steal that was still running
C16_Witness ==
  \E c \in DOMAIN teams :
    /\ program = "server" /\ now = MinAttemptMinutes * MinuteMs
    /\ teams[c].penaltyUntil > now + PenaltyMinutes * MinuteMs
    /\ Len(teams[c].drawn) = 1 /\ ~hasActive(teams[c])
    /\ \E p \in DOMAIN bars : bars[p].attemptsFailed = 1

\* C17: a team has one activeChallenge slot, and a drawCard by a team whose
\* challenge is active is rejected (as ChallengeAlreadyActive once the
\* window, deck and penalty checks have passed) and leaves the challenge, its
\* cardId and startedAt as they were.
C17_OneActiveChallenge ==
  /\ [](program = "server" =>
          \A c \in DOMAIN teams :
            hasActive(teams[c])
              => /\ drawCardResult(c) # "ok"
                 /\ withinGameTime /\ Len(game.masterDeck) > 0 /\ ~isPenalized(c)
                      => drawCardResult(c) = "ChallengeAlreadyActive")
  /\ [][ \A c \in RosterCodes :
           /\ program = "server" /\ ensureTeam(c) /\ hasActive(teams[c])
           /\ drawCard(c)
           => /\ teams'[c].activeChallenge = teams[c].activeChallenge
              /\ teams' = teams
       ]_vars

\* a team whose challenge was started earlier could draw again now: the
\* window is open, a deck is loaded and the team is not penalized
C17_Witness ==
  \E c \in DOMAIN teams :
    /\ program = "server" /\ hasActive(teams[c])
    /\ teams[c].activeChallenge.startedAt < now
    /\ drawCardResult(c) = "ChallengeAlreadyActive"

\* the ids of the cards of a team's deck, in deck order
deckIds(t) == [i \in 1..Len(t.deck) |-> t.deck[i].id]

\* the cards handed out so far: the resolved ones, then the active one
handedOut(t) ==
  IF hasActive(t) THEN Append(t.drawn, t.activeChallenge.cardId) ELSE t.drawn

\* C18: between resets the cards a team has been handed are, in order, the
\* first cards of its shuffled deck (so no card is handed out twice); an
\* accepted drawCard hands out the first card of the deck that is not in
\* drawn; and a drawCard that passes the window, deck-loaded, penalty and
\* active-challenge checks is answered DeckExhausted exactly when every card
\* of the team's deck is in drawn.
C18_DrawsFollowDeckOrder ==
  /\ [](program = "server" =>
          \A c \in DOMAIN teams :
            /\ Len(handedOut(teams[c])) <= Len(teams[c].deck)
            /\ handedOut(teams[c]) =
                 SubSeq(deckIds(teams[c]), 1, Len(handedOut(teams[c])))
            /\ (withinGameTime /\ Len(game.masterDeck) > 0
                  /\ ~isPenalized(c) /\ ~hasActive(teams[c]))
                 => (drawCardResult(c) = "DeckExhausted"
                       <=> /\ Len(teams[c].deck) > 0
                           /\ \A i \in 1..Len(teams[c].deck) :
                                isDrawn(teams[c], teams[c].deck[i].id)))
  /\ [][ \A c \in RosterCodes :
           program = "server" /\ drawCard(c) /\ drawCardResult(c) = "ok"
           => /\ teams'[c].activeChallenge.cardId =
                   teams'[c].deck[Len(teams'[c].drawn) + 1].id
              /\ ~isDrawn(teams[c], teams'[c].activeChallenge.cardId)
              /\ Len(teams[c].deck) > 0
                   => /\ teams'[c].deck = teams[c].deck
                      /\ teams'[c].drawn = teams[c].drawn
       ]_vars

\* a team has resolved every card of a three-card deck that the shuffle put
\* in another order than the master deck, and its next draw is answered
\* DeckExhausted
C18_Witness ==
  \E c \in DOMAIN teams :
    /\ program = "server"
    /\ Len(teams[c].deck) = 3 /\ Len(teams[c].drawn) = 3
    /\ teams[c].deck # game.masterDeck
    /\ drawCardResult(c) = "DeckExhausted"

\* C19: a vetoChallenge on an active challenge is answered VetoTooEarly when
\* now - startedAt < 12 minutes, and such a call changes nothing; when
\* now - startedAt >= 12 minutes it is accepted, appends the card to drawn,
\* clears the active challenge and moves the team's penaltyUntil to
\* max(now, penaltyUntil) + 5 minutes, touching nothing else.
C19_VetoAfterTwelveMinutes ==
  /\ [](program = "server" =>
          \A c \in DOMAIN teams :
            hasActive(teams[c])
              => vetoChallengeResult(c) =
                   IF now - teams[c].activeChallenge.startedAt < 12 * 60000
                     THEN "VetoTooEarly" ELSE "ok")
  /\ [][ \A c \in RosterCodes :
           /\ program = "server" /\ ensureTeam(c) /\ hasActive(teams[c])
           /\ vetoChallenge(c)
           => IF vetoChallengeResult(c) = "VetoTooEarly"
                THEN UNCHANGED <<teams, bars>>
                ELSE /\ teams' = [teams EXCEPT
                          ![c].drawn = Append(@, teams[c].activeChallenge.cardId),
                          ![c].activeChallenge = NoChallenge,
                          ![c].penaltyUntil = Max(now, @) + 5 * 60000]
                     /\ bars' = bars
       ]_vars

\* a veto was accepted exactly 12 minutes after the draw: no bar was ever
\* claimed, so the penalty that now runs for 5 minutes comes from the veto
C19_Witness ==
  \E c \in DOMAIN teams :
    /\ program = "server" /\ bars = Empty
    /\ now = MinAttemptMinutes * MinuteMs
    /\ teams[c].penaltyUntil = now + PenaltyMinutes * MinuteMs
    /\ Len(teams[c].drawn) = 1 /\ ~hasActive(teams[c])

\* C20: completeChallenge by a team without active challenge is answered
\* NoActiveChallenge and changes nothing; with an active challenge it is
\* accepted, appends the active card's id to drawn and clears the active
\* challenge, leaving the team's penalty and score, every other team and all
\* bars unchanged.
C20_CompleteResolvesCard ==
  /\ [](program = "server" =>
          \A c \in DOMAIN teams :
            completeChallengeResult(c) =
              IF hasActive(teams[c]) THEN "ok" ELSE "NoActiveChallenge")
  /\ [][ \A c \in RosterCodes :
           program = "server" /\ ensureTeam(c) /\ completeChallenge(c)
           => IF ~hasActive(teams[c])
                THEN UNCHANGED <<teams, bars>>
                ELSE /\ teams' = [teams EXCEPT
                          ![c].drawn = Append(@, teams[c].activeChallenge.cardId),
                          ![c].activeChallenge = NoChallenge]
                     /\ bars' = bars
       ]_vars

\* a penalized team has completed a card while a bar is claimed
C20_Witness ==
  \E c \in DOMAIN teams :
    /\ program = "server" /\ bars # Empty
    /\ isPenalized(c) /\ teams[c].penaltyUntil = PenaltyMinutes * MinuteMs
    /\ Len(teams[c].drawn) = 1 /\ ~hasActive(teams[c])

\* both window bounds are set and now lies outside [start, end]
WindowClosed ==
  game.start # 0 /\ game.end # 0 /\ (now < game.start \/ now > game.end)

\* C21: when both window bounds are set and now lies outside [start, end],
\* every claim, stealAttempt and drawCard call is answered GameWindowClosed,
\* and no such call changes teams or bars.
C21_ClosedWindowRejects ==
  /\ [](program = "server" /\ WindowClosed =>
          \A c \in CodeInputs, p \in PlaceInputs, n \in NameInputs :
            /\ claimResult(c, p, n) = "GameWindowClosed"
            /\ stealResult(c, p) = "GameWindowClosed"
            /\ drawCardResult(c) = "GameWindowClosed")
  /\ [][ program = "server" /\ WindowClosed /\ ~UNCHANGED <<teams, bars>>
           => \A c \in CodeInputs :
                /\ ~drawCard(c)
                /\ \A p \in PlaceInputs, b \in BOOLEAN : ~stealAttempt(c, p, b)
                /\ \A p \in PlaceInputs, n \in NameInputs, ph \in PhotoInputs :
                     ~claim(c, p, n, ph)
       ]_vars

\* the window has ended while a bar is claimed and unlocked, a deck is loaded
\* and the other team has neither penalty nor active challenge: without the
\* window its claim, steal and draw would all be accepted
C21_Witness ==
  \E p \in DOMAIN bars, c \in DOMAIN teams :
    /\ program = "server" /\ WindowClosed /\ now > game.end
    /\ bars[p].state = "claimed" /\ bars[p].claimedBy # c
    /\ Len(game.masterDeck) > 0
    /\ ~isPenalized(c) /\ ~hasActive(teams[c])

\* C22: the window check is true exactly when the start bound or the end
\* bound is unset, or start <= now <= end with both bounds inclusive; so a
\* window with only one bound set is open at every instant, and a registered
\* team's claim is answered GameWindowClosed exactly when the check is false.
C22_WindowOpenUnlessOutsideBothBounds ==
  program = "server" =>
    /\ withinGameTime
         <=> (game.start = 0 \/ game.end = 0 \/ (game.start <= now /\ now <= game.end))
    /\ \A c \in DOMAIN teams :
         claimResult(c, "B1", "Bar") = "GameWindowClosed"
           <=> /\ game.start # 0 /\ game.end # 0
               /\ (now < game.start \/ now > game.end)

\* only the end bound is set and it has passed, yet a registered team's claim
\* is accepted
C22_Witness ==
  \E c \in DOMAIN teams :
    /\ program = "server"
    /\ game.start = 0 /\ game.end # 0 /\ now > game.end
    /\ claimResult(c, "B1", "Bar") = "ok"

\* C23: a reset empties the bar set and leaves every team with score 0, no
\* penalty, an empty deck, an empty drawn list, no deck seed and no active
\* challenge; the set of team codes, the master deck, the access code and the
\* game window stay as they were.
C23_ResetClearsProgress ==
  [][ program = "server" /\ bars' = Empty /\ resetState
        => /\ DOMAIN teams' = DOMAIN teams
           /\ \A c \in DOMAIN teams :
                /\ teams'[c].score = 0 /\ teams'[c].penaltyUntil = 0
                /\ teams'[c].deck = <<>> /\ teams'[c].drawn = <<>>
                /\ teams'[c].deckSeed = <<>>
                /\ teams'[c].activeChallenge = NoChallenge
           /\ game' = game
    ]_vars

\* a game in its reset state, 12 minutes in: both teams are registered with
\* nothing to their name, no bar has a record, and the deck and the window an
\* administrator had set are still there
C23_Witness ==
  /\ program = "server" /\ now = MinAttemptMinutes * MinuteMs
  /\ bars = Empty /\ DOMAIN teams = RosterCodes
  /\ \A c \in DOMAIN teams : teams[c] = newTeam
  /\ Len(game.masterDeck) = 3 /\ game.start # 0

\* C24: once a team's deckSeed and deck are assigned (both by its first
\* draw), no step other than a reset changes them: later draws, completes,
\* vetoes, createTeam on the existing code and uploadDeck leave the team's
\* deckSeed and deck order as they were.
C24_DeckFixedUntilReset ==
  /\ [](program = "server" =>
          \A c \in DOMAIN teams :
            teams[c].deckSeed # <<>> <=> Len(teams[c].deck) > 0)
  /\ [][ program = "server" /\ teams' # teams
           => \A c \in DOMAIN teams :
                teams[c].deckSeed # <<>>
                  => \/ /\ teams'[c].deckSeed = teams[c].deckSeed
                        /\ teams'[c].deck = teams[c].deck
                     \/ resetState
       ]_vars

\* a team holds a deck shuffled from an earlier master deck, has resolved a
\* card of it and holds the next one, after another master deck was loaded
C24_Witness ==
  \E c \in DOMAIN teams :
    /\ program = "server"
    /\ Len(teams[c].deck) = 3 /\ Len(game.masterDeck) = 1
    /\ Len(teams[c].drawn) = 1 /\ hasActive(teams[c])

\* the master decks an administrator can load
MasterDecks == {parseDeck(f) : f \in FileInputs \ {NoFile}}

C26_MutationIsBroadcast ==
  /\ [](program = "server" =>
          /\ \A c \in CodeInputs :
               /\ drawCardResult(c) # "ok" => ~drawCardBroadcasts(c)
               /\ completeChallengeResult(c) # "ok" => ~completeChallengeBroadcasts(c)
               /\ vetoChallengeResult(c) # "ok" => ~vetoChallengeBroadcasts(c)
               /\ claimResult(c, "B1", "Bar") # "ok" => ~claimBroadcasts(c, "B1", "Bar")
               /\ stealResult(c, "B1") # "ok" => ~stealAttemptBroadcasts(c, "B1")
          /\ \A f \in FileInputs :
               uploadDeckResult(f) # "ok" => ~uploadDeckBroadcasts(f))
  /\ [][ program = "server" /\ <<game, teams, bars>>' # <<game, teams, bars>>
           => /\ \A w \in WindowInputs :
                   initGame(w[1], w[2], Undefined) => initGameBroadcasts
              /\ \A c \in RosterCodes :
                   createTeam(c, "Bar") => createTeamBroadcasts(c, "Bar")
              /\ \A f \in FileInputs : uploadDeck(f) => uploadDeckBroadcasts(f)
              /\ resetState => resetStateBroadcasts
              /\ \A c \in CodeInputs :
                   /\ drawCard(c) => drawCardBroadcasts(c)
                   /\ completeChallenge(c) => completeChallengeBroadcasts(c)
                   /\ vetoChallenge(c) => vetoChallengeBroadcasts(c)
              /\ claim("T1", "B1", "Bar", {"teamPhoto", "drinksPhoto"})
                   => claimBroadcasts("T1", "B1", "Bar")
              /\ stealAttempt("T2", "B1", FALSE) => stealAttemptBroadcasts("T2", "B1")
       ]_vars

(* ---------------------------------------------------------------------- *)
\* C27 as stated: join answers ok only if the supplied game code equals the
\* game's access code, the team code is a registered team and the display
\* name is not empty.
C27_JoinNeedsMatchingCode ==
  /\ program = "server" =>
       \A a \in JoinCodes, c \in CodeInputs, d \in JoinNames :
         joinResult(a, c, d) = "ok"
           => a = game.accessCode /\ c \in DOMAIN teams /\ d # ""
  /\ program = "part_000" =>
       \A a \in AccessInputs, c \in PCodeInputs, d \in DisplayInputs :
         pJoinResult(a, c, d) = "ok"
           => a = ACTIVE_GAME_CODE /\ c \in ConfigCodes /\ d # ""

\* C27, amended: join answers ok exactly when the team code is a registered
\* team, the display name is not empty and the supplied game code equals the
\* game's access code, or, in server.js, the game has no access code; every
\* other call is answered InvalidGameCode, InvalidTeamCode or MissingFields;
\* the one write join makes (part_000 re-synchronises the roster) leaves the
\* teams as they are.
C27_JoinNeedsCodeWhenSet ==
  /\ program = "server" =>
       \A a \in JoinCodes, c \in CodeInputs, d \in JoinNames :
         /\ joinResult(a, c, d) = "ok"
              <=> /\ game.accessCode = "" \/ a = game.accessCode
                  /\ c \in DOMAIN teams
                  /\ d # ""
         /\ joinResult(a, c, d)
              \in {"ok", "InvalidGameCode", "InvalidTeamCode", "MissingFields"}
  /\ program = "part_000" =>
       /\ \A a \in AccessInputs, c \in PCodeInputs, d \in DisplayInputs :
            /\ pJoinResult(a, c, d) = "ok"
                 <=> a = ACTIVE_GAME_CODE /\ c \in ConfigCodes /\ d # ""
            /\ pJoinResult(a, c, d)
                 \in {"ok", "InvalidGameCode", "InvalidTeamCode", "MissingFields"}
       /\ syncTeams(teams) = teams

\* no access code is set, T1 owns a bar, and a player joins T1 with a game
\* code of their own
C27_Witness ==
  /\ program = "server"
  /\ game.accessCode = ""
  /\ "B1" \in DOMAIN bars
  /\ bars["B1"].claimedBy = "T1"
  /\ joinResult("Seminyak", "T1", "Made") = "ok"

(* ---------------------------------------------------------------------- *)
\* C28: in every reachable state the owner of every bar is no team or the code
\* of a team of the roster; a claim or steal with an unknown team code never
\* becomes the owner.
C28_OwnerIsRosterTeam ==
  \A p \in DOMAIN bars : Owner(bars[p]) \in DOMAIN teams \cup {NoCode}

\* T1 owns B1, and an unregistered team's claim on B2 and steal of B1 are
\* refused
C28_Witness ==
  /\ program = "server"
  /\ "B1" \in DOMAIN bars
  /\ bars["B1"].claimedBy = "T1"
  /\ "B2" \notin DOMAIN bars
  /\ "T3" \notin DOMAIN teams
  /\ claimResult("T3", "B2", "Bar") = "InvalidTeam"
  /\ stealResult("T3", "B1") = "InvalidTeam"

(* ---------------------------------------------------------------------- *)
\* C29: in server.js, in every reachable state, the failed-steal count of a
\* bar in state "claimed" is at most 1, and the count of no bar exceeds 2.
C29_FailedAttemptsBounded ==
  program = "server" =>
    \A p \in DOMAIN bars :
      /\ bars[p].state = "claimed" => bars[p].attemptsFailed <= 1
      /\ bars[p].attemptsFailed <= 2

\* one bar is still claimed after one failed steal while the other has been
\* locked by the second failure
C29_Witness ==
  /\ program = "server"
  /\ \E p \in DOMAIN bars, q \in DOMAIN bars :
       /\ bars[p].state = "claimed" /\ bars[p].attemptsFailed = 1
       /\ bars[q].state = "locked" /\ bars[q].attemptsFailed = 2

(* ---------------------------------------------------------------------- *)
\* C30: in server.js, in every reachable state, a bar has a locking team
\* exactly when its state is "locked", and the locking team is the owner.
C30_LockedByIffLocked ==
  program = "server" =>
    \A p \in DOMAIN bars :
      /\ bars[p].lockedBy # NoCode <=> bars[p].state = "locked"
      /\ bars[p].lockedBy # NoCode => bars[p].lockedBy = bars[p].claimedBy

\* one bar locked by its owner without any failed steal, one locked by two
\* failed steals
C30_Witness ==
  /\ program = "server"
  /\ \E p \in DOMAIN bars, q \in DOMAIN bars :
       /\ bars[p].state = "locked" /\ bars[p].attemptsFailed = 0
       /\ bars[p].lockedBy = bars[p].claimedBy
       /\ bars[q].state = "locked" /\ bars[q].attemptsFailed = 2
       /\ bars[q].lockedBy = bars[q].claimedBy

(* ---------------------------------------------------------------------- *)
\* C31: no call other than the administrative reset lowers the stored score
\* of a team; in particular the team that loses a bar to another team keeps
\* its score.
C31_ScoreNeverDecreases ==
  [][ teams' # teams =>
        /\ (\A c \in DOMAIN teams :
              c \in DOMAIN teams' /\ teams'[c].score >= teams[c].score)
             \/ (program = "server" /\ resetState)
        /\ \A p \in DOMAIN bars :
             p \in DOMAIN bars' /\ Owner(bars[p]) \in DOMAIN teams
               /\ Owner(bars'[p]) # Owner(bars[p])
               => teams'[Owner(bars[p])].score = teams[Owner(bars[p])].score
    ]_vars

\* a team holds a point and owns no bar: the bar it claimed now belongs to
\* another team
C31_Witness ==
  \E c \in DOMAIN teams, p \in DOMAIN bars :
    /\ teams[c].score = 1
    /\ OwnedCount(c) = 0
    /\ Owner(bars[p]) \in DOMAIN teams \ {c}
    /\ teams[Owner(bars[p])].score >= 1

(* ---------------------------------------------------------------------- *)
RECURSIVE SumScores(_)
\* the sum of the stored scores of the teams in S
SumScores(S) ==
  IF S = {} THEN 0
  ELSE LET c == CHOOSE x \in S : TRUE IN teams[c].score + SumScores(S \ {c})

OwnedBars == {p \in DOMAIN bars : Owner(bars[p]) # NoCode}

\* C32: in part_000, from the empty database, the scores of all teams add up
\* to the number of bars that have an owner; the point of a bar goes to the
\* team whose claim gives the bar its first owner and to nobody afterwards,
\* and a bar that has an owner never is without one again.
C32_ScoreSumIsOwnedBars ==
  /\ [](program = "part_000" => SumScores(DOMAIN teams) = Cardinality(OwnedBars))
  /\ [][ program = "part_000" /\ ~UNCHANGED <<bars, teams>> =>
           /\ \A p \in DOMAIN bars : bars[p].owner # NoCode => bars'[p].owner # NoCode
           /\ \A c \in DOMAIN teams :
                /\ teams'[c].score - teams[c].score \in {0, 1}
                /\ teams'[c].score = teams[c].score + 1
                     <=> \E p \in DOMAIN bars' :
                           /\ bars'[p].owner = c
                           /\ p \in DOMAIN bars => bars[p].owner = NoCode
       ]_vars

\* a bar first claimed by one team now belongs to another: the first claimer
\* has the bar's point and the owner has none
C32_Witness ==
  /\ program = "part_000"
  /\ \E p \in DOMAIN bars, c \in DOMAIN teams :
       /\ bars[p].owner \in DOMAIN teams \ {c}
       /\ teams[bars[p].owner].score = 0
       /\ teams[c].score = 1
       /\ Cardinality(OwnedBars) = 1

(* ---------------------------------------------------------------------- *)
\* C33: in every reachable state and for every team, no card id occurs twice
\* in drawn, every id in drawn is the id of a card of the team's deck, and the
\* card of the active challenge, if there is one, is not in drawn.
C33_DrawnHasNoDuplicates ==
  program = "server" =>
    \A c \in DOMAIN teams :
      /\ \A i \in 1..Len(teams[c].drawn), j \in 1..Len(teams[c].drawn) :
           teams[c].drawn[i] = teams[c].drawn[j] => i = j
      /\ \A i \in 1..Len(teams[c].drawn) :
           \E k \in 1..Len(teams[c].deck) : teams[c].deck[k].id = teams[c].drawn[i]
      /\ hasActive(teams[c]) => ~isDrawn(teams[c], teams[c].activeChallenge.cardId)

\* a team that has carried a penalty has resolved two cards of its three-card
\* deck and works on the third, after the master deck was replaced by a
\* one-card deck
C33_Witness ==
  /\ program = "server"
  /\ \E c \in DOMAIN teams :
       /\ Len(teams[c].drawn) = 2
       /\ hasActive(teams[c])
       /\ Len(teams[c].deck) = 3
       /\ Len(game.masterDeck) = 1
       /\ teams[c].penaltyUntil > 0

(* ---------------------------------------------------------------------- *)
\* a is a rearrangement of arr: same length, every card of arr exactly once
IsPermutation(a, arr) ==
  /\ Len(a) = Len(arr)
  /\ \A k \in 1..Len(arr) : Cardinality({m \in 1..Len(a) : a[m] = arr[k]}) = 1

\* C34: for every master deck and seed, at every iteration of shuffle the
\* generator state is in [0, 2^32) and the swap index in [0, i]; the array is
\* a permutation of the master deck throughout and at the return, where it is
\* the value of shuffle; and the master deck is as it was at the call.
C34_ShuffleIsPermutation ==
  \A f \in running :
    /\ f.s.hi \in 0..(Half - 1) /\ f.s.lo \in 0..(Half - 1)
    /\ f.j # -1 => f.j \in 0..(f.i + 1)
    /\ IsPermutation(f.a, f.arr)
    /\ game.masterDeck = f.arr
    /\ f.i <= 0 => /\ f.a = shuffle(game.masterDeck, f.seed)
                   /\ IsPermutation(shuffle(game.masterDeck, f.seed), game.masterDeck)

\* a shuffle of the five-card deck is about to return an order other than the
\* master deck's, after a generator state with the top bit set and a last
\* swap of a card with itself or its neighbour
C34_Witness ==
  \E f \in running :
    /\ f.i = 0
    /\ Len(f.arr) = MaxShuffleLen
    /\ f.a # f.arr
    /\ f.s.hi >= 32768
    /\ f.j \in 0..1

====
